---- MODULE Spec2Model ----
(***************************************************************************)
(* Model of the aggregation-bits audit (main.go): the epoch/slot           *)
(* arithmetic, the block fetch loop of ListEpochBlocks, the committee      *)
(* fetch of GetBeaconCommitees and the audit loop of main.                 *)
(*                                                                         *)
(* phase0.Slot, phase0.Epoch and phase0.CommitteeIndex are uint64.  TLC    *)
(* has 32-bit integers, so the word is WordBits wide here and every        *)
(* unsigned operation is reduced modulo 2^WordBits; SLOTS_PER_EPOCH keeps  *)
(* its value, so the wrap-around happens at epoch 2^(WordBits-5).          *)
(***************************************************************************)
EXTENDS Integers, Sequences, FiniteSets, TLC

\* ------------------------------------------------------------------ bounds
WordBits == 8            \* width of the unsigned words (64 in the program)
MaxAtts == 2             \* attestations in the blocks of one epoch
MaxCalls == 40           \* GetBlock calls recorded before the model stops
SelBits == 2             \* width of a committee-bits selector (64 in the program)

\* --------------------------------------------------------------- constants
SLOTS_PER_EPOCH == 32

Modulus == 2 ^ WordBits
Word == 0 .. (Modulus - 1)

\* unsigned arithmetic of the word width
UAdd(a, b) == (a + b) % Modulus
USub(a, b) == (a - b + Modulus) % Modulus
UMul(a, b) == (a * b) % Modulus

\* ------------------------------------------------------- slot arithmetic
EpochLowestSlot(e) == UMul(e, SLOTS_PER_EPOCH)

EpochHighestSlot_NoMinusOne(e) == UMul(UAdd(e, 1), SLOTS_PER_EPOCH)
EpochHighestSlot(e) == USub(UMul(UAdd(e, 1), SLOTS_PER_EPOCH), 1)

\* ------------------------------------------------------------------- maps
\* A Go map is a function on the set of its keys; the nil map and the empty
\* map both read as "no key".
EmptyMap == [k \in {} |-> 0]
MapPut(m, k, v) == [x \in (DOMAIN m) \cup {k} |-> IF x = k THEN v ELSE m[x]]
\* committees[slot][index] on a map of maps: a missing slot or a missing
\* index yields the zero value, the nil slice.
MapGet2(m, s, i) ==
    IF s \in DOMAIN m THEN (IF i \in DOMAIN m[s] THEN m[s][i] ELSE << >>) ELSE << >>
MapGet1(m, s) == IF s \in DOMAIN m THEN m[s] ELSE EmptyMap

\* ------------------------------------------------------- committee bits
\* CommitteeBits.BitIndices(): the positions of the set bits of the
\* selector, in ascending order.  The selector is the integer whose binary
\* digits are the bits.
RECURSIVE BitIndicesFrom(_, _)
BitIndicesFrom(bits, pos) ==
    IF bits = 0 THEN << >>
    ELSE IF bits % 2 = 1
         THEN <<pos>> \o BitIndicesFrom(bits \div 2, pos + 1)
         ELSE BitIndicesFrom(bits \div 2, pos + 1)
BitIndices(bits) == BitIndicesFrom(bits, 0)

\* lines 138-141: committeesLen accumulated over the selected indices
RECURSIVE SumSelected(_, _, _)
SumSelected(cm, s, idxs) ==
    IF idxs = << >> THEN 0
    ELSE Len(MapGet2(cm, s, Head(idxs))) + SumSelected(cm, s, Tail(idxs))

CommitteesLen_SkipFirst(cm, s, bits) ==
    IF BitIndices(bits) = << >> THEN 0 ELSE SumSelected(cm, s, Tail(BitIndices(bits)))
CommitteesLen(cm, s, bits) == SumSelected(cm, s, BitIndices(bits))

\* lines 130-133: total membership of all committees of the duty slot
RECURSIVE SumAll(_)
SumAll(m) ==
    IF DOMAIN m = {} THEN 0
    ELSE LET k == CHOOSE x \in DOMAIN m : TRUE
         IN  Len(m[k]) + SumAll([x \in (DOMAIN m) \ {k} |-> m[x]])
ExpectedCommitteeLength(cm, duty) == SumAll(MapGet1(cm, duty))

\* ------------------------------------------------------------------ state
VARIABLES
    epoch,          \* main: the audited epoch
    assignment,     \* beacon node: the committees of the chain, a set of
                    \* [Slot, Index, Validators]
    pc,             \* position of main
    low, high, slot, result,      \* ListEpochBlocks: locals
    calls,          \* beacon node: the slots GetBlock asked for, in order
    gotBlock,       \* the slots for which GetBlock returned a non-nil block
    errSeen,        \* ListEpochBlocks: some GetBlock call returned an error
    epochBlocks, listErr,         \* main: what ListEpochBlocks returned
    cEpoch,         \* GetBeaconCommitees: loop variable epoch
    committees, commErr,          \* main: what GetBeaconCommitees returned
    pending,        \* range epochBlocks: the keys not yet visited
    blockSlot, dutySlot, expectedCommitteeLength,   \* audit loop: locals
    attIdx,         \* position in block.Message.Body.Attestations
    committeesLen,  \* the computed length of the last compared attestation
    records,        \* log.Error lines "length mismatch ..."
    summaries,      \* log.Info lines "dutySlot ... committeeLength"
    run, prevRecords, prevSummaries   \* output of the previous run of the loop

vars == <<epoch, assignment, pc, low, high, slot, result, calls, gotBlock, errSeen,
          epochBlocks, listErr, cEpoch, committees, commErr, pending,
          blockSlot, dutySlot, expectedCommitteeLength, attIdx, committeesLen,
          records, summaries, run, prevRecords, prevSummaries>>

listVars == <<low, high, slot, result, calls, gotBlock>>
\* errSeen is named by the actions themselves
commVars == <<cEpoch, committees, commErr>>
auditVars == <<pending, blockSlot, dutySlot, expectedCommitteeLength, attIdx,
               committeesLen, records, summaries>>
rerunVars == <<run, prevRecords, prevSummaries>>

\* ------------------------------------------------------------ beacon node
\* The epoch at which (epoch + 1) * SLOTS_PER_EPOCH first wraps around.
WrapEpoch == (Modulus \div SLOTS_PER_EPOCH) - 1
AuditEpochs == {0, 1, WrapEpoch, Modulus - 1}

\* The slots of the epoch that have a proposed block on the chain: its first
\* and its last; every other slot is a missed slot.
ProposedSlots(e) == {EpochLowestSlot(e), EpochHighestSlot(e)}

NilBlock == [isNil |-> TRUE, slot |-> 0, atts |-> << >>]

\* The attestations a block of slot s may carry: for the previous slot or the
\* one before, selecting every committee, with 2 or 3 aggregation bits.
AttSet(s) ==
    {[dataSlot |-> USub(s, d), committeeBits |-> b, aggregationBitsLen |-> l] :
        d \in {1, 2}, b \in {(2 ^ SelBits) - 1}, l \in {2, 3}}
AttSeqs(s, n) == UNION {[1 .. k -> AttSet(s)] : k \in 0 .. n}

RECURSIVE CountAtts(_)
CountAtts(m) ==
    IF DOMAIN m = {} THEN 0
    ELSE LET k == CHOOSE x \in DOMAIN m : TRUE
         IN  Len(m[k].atts) + CountAtts([x \in (DOMAIN m) \ {k} |-> m[x]])

\* provider.SignedBeaconBlock: an error, a nil response (missed slot), a
\* response without an Electra block, or the Electra block of the slot.
SignedBeaconBlock(s, e, budget) ==
    {[kind |-> "err", electra |-> NilBlock],
     [kind |-> "missed", electra |-> NilBlock],
     [kind |-> "ok", electra |-> NilBlock]}
    \cup (IF s \in ProposedSlots(e)
          THEN {[kind |-> "ok", electra |-> [isNil |-> FALSE, slot |-> s, atts |-> a]] :
                    a \in AttSeqs(s, budget)}
          ELSE {})

\* The committees of the chain: committee 0 (two validators) at the duty slot
\* of every proposed slot, committee 1 (one validator) at some of them.  Slot 0
\* has no duty slot.
DutySlots(e) == {USub(s, 1) : s \in ProposedSlots(e) \ {0}}
Assignments(e) ==
    {  {[Slot |-> s, Index |-> 0, Validators |-> <<1, 2>>] : s \in DutySlots(e)}
       \cup {[Slot |-> s, Index |-> 1, Validators |-> <<3>>] : s \in with1}
     : with1 \in SUBSET DutySlots(e)}

SlotEpoch(s) == s \div SLOTS_PER_EPOCH

RECURSIVE CommitteeSeq(_)
CommitteeSeq(cs) ==
    IF cs = {} THEN << >>
    ELSE LET c == CHOOSE x \in cs :
                    \A y \in cs : (x.Slot < y.Slot) \/ (x.Slot = y.Slot /\ x.Index <= y.Index)
         IN  <<c>> \o CommitteeSeq(cs \ {c})

\* provider.BeaconCommittees for one epoch: an error, or the committees of
\* the slots of that epoch.
BeaconCommittees(e) ==
    {[err |-> TRUE, Data |-> << >>],
     [err |-> FALSE, Data |-> CommitteeSeq({c \in assignment : SlotEpoch(c.Slot) = e})]}

\* ---------------------------------------------------------------- GetBlock
\* GetBlock returns (nil, err) on a provider error, (nil, nil) on a nil
\* response and (resp.Data.Electra, nil) otherwise.
GetBlock(resp) ==
    IF resp.kind = "err" THEN [block |-> NilBlock, err |-> TRUE]
    ELSE IF resp.kind = "missed" THEN [block |-> NilBlock, err |-> FALSE]
    ELSE [block |-> resp.electra, err |-> FALSE]

\* ---------------------------------------------------------- ListEpochBlocks
\* lines 52-54
ListEnter ==
    /\ pc = "main"
    /\ low' = EpochLowestSlot(epoch)
    /\ high' = EpochHighestSlot(epoch)
    /\ slot' = EpochLowestSlot(epoch)
    /\ result' = EmptyMap
    /\ pc' = "list"
    /\ UNCHANGED <<epoch, assignment, calls, gotBlock, errSeen, epochBlocks, listErr>>
    /\ UNCHANGED <<commVars, auditVars, rerunVars>>

\* lines 58-68: what one iteration does with what GetBlock returned; abort
\* says whether the loop is left with an error.
StoreBlock_AbortOnError(res, r, s) ==
    IF r.err THEN [result |-> res, abort |-> TRUE]
    ELSE IF r.block.isNil THEN [result |-> res, abort |-> FALSE]
    ELSE [result |-> MapPut(res, s, r.block), abort |-> FALSE]
StoreBlock(res, r, s) ==
    IF r.err THEN [result |-> res, abort |-> FALSE]
    ELSE IF r.block.isNil THEN [result |-> res, abort |-> FALSE]
    ELSE [result |-> MapPut(res, s, r.block), abort |-> FALSE]

\* line 55: the loop condition, on unsigned words
ListLoopCond(s, h) == s <= h

\* lines 55-69: one iteration of the fetch loop
ListStep ==
    /\ pc = "list"
    /\ ListLoopCond(slot, high)
    /\ Len(calls) < MaxCalls
    /\ \E resp \in SignedBeaconBlock(slot, epoch, MaxAtts - CountAtts(result)) :
          LET r == GetBlock(resp)
              st == StoreBlock(result, r, slot)
          IN  /\ calls' = Append(calls, slot)
              /\ gotBlock' = IF ~r.err /\ ~r.block.isNil THEN gotBlock \cup {slot} ELSE gotBlock
              /\ errSeen' = (errSeen \/ r.err)
              /\ result' = st.result
              /\ IF st.abort
                 THEN /\ pc' = "failed"
                      /\ listErr' = TRUE
                      /\ slot' = slot
                 ELSE /\ pc' = "list"
                      /\ listErr' = listErr
                      /\ slot' = UAdd(slot, 1)
    /\ UNCHANGED <<epoch, assignment, low, high, epochBlocks>>
    /\ UNCHANGED <<commVars, auditVars, rerunVars>>

\* line 119: the first epoch of the window main asks for
StartEpoch(e) == USub(e, 1)

\* line 70 and lines 113-119: the loop is over, main takes the map and
\* calls GetBeaconCommitees(epoch-1, epoch)
ListReturn ==
    /\ pc = "list"
    /\ ~ListLoopCond(slot, high)
    /\ epochBlocks' = result
    /\ listErr' = FALSE
    /\ cEpoch' = StartEpoch(epoch)
    /\ committees' = EmptyMap
    /\ errSeen' = FALSE
    /\ pc' = "committees"
    /\ UNCHANGED <<epoch, assignment, commErr>>
    /\ UNCHANGED <<listVars, auditVars, rerunVars>>

\* ------------------------------------------------------- GetBeaconCommitees
\* lines 86-94: the committees of one response, keyed by slot, then index
RECURSIVE AddCommittees(_, _)
AddCommittees(res, data) ==
    IF data = << >> THEN res
    ELSE LET c == Head(data)
             inner == MapGet1(res, c.Slot)
         IN  AddCommittees(MapPut(res, c.Slot, MapPut(inner, c.Index, c.Validators)),
                           Tail(data))

\* lines 77-95: one iteration; on an error the function returns (nil, err)
\* and main, which does not read err, goes on to the audit loop
CommitteesStep ==
    /\ pc = "committees"
    /\ cEpoch <= epoch
    /\ \E resp \in BeaconCommittees(cEpoch) :
          IF resp.err
          THEN /\ committees' = EmptyMap
               /\ commErr' = TRUE
               /\ cEpoch' = cEpoch
               /\ pending' = DOMAIN epochBlocks
               /\ pc' = "range"
          ELSE /\ committees' = AddCommittees(committees, resp.Data)
               /\ commErr' = FALSE
               /\ cEpoch' = UAdd(cEpoch, 1)
               /\ pending' = pending
               /\ pc' = "committees"
    /\ UNCHANGED <<epoch, assignment, epochBlocks, listErr>>
    /\ UNCHANGED <<listVars, errSeen, rerunVars>>
    /\ UNCHANGED <<blockSlot, dutySlot, expectedCommitteeLength, attIdx, committeesLen,
                   records, summaries>>

\* line 97 and lines 121-124
CommitteesReturn ==
    /\ pc = "committees"
    /\ ~(cEpoch <= epoch)
    /\ pending' = DOMAIN epochBlocks
    /\ pc' = "range"
    /\ UNCHANGED <<epoch, assignment, epochBlocks, listErr>>
    /\ UNCHANGED <<listVars, errSeen, commVars, rerunVars>>
    /\ UNCHANGED <<blockSlot, dutySlot, expectedCommitteeLength, attIdx, committeesLen,
                   records, summaries>>

\* --------------------------------------------------------------- audit loop
\* line 137: only attestations of the duty slot are compared
MatchesDuty_Always(att, duty) == TRUE
MatchesDuty(att, duty) == att.dataSlot = duty

\* line 142
Mismatch_Never(att, computed) == FALSE
Mismatch(att, computed) == att.aggregationBitsLen # computed

\* line 143: the line log.Error writes
MismatchRecord(att, bSlot, computed) ==
    [attSlot |-> att.dataSlot, blockSlot |-> bSlot,
     computed |-> computed, actual |-> att.aggregationBitsLen]

\* line 127
DutySlotOf(bSlot) == USub(bSlot, 1)

\* lines 124-133: range picks a key of epochBlocks that was not visited yet,
\* in no particular order
AuditNextBlock ==
    /\ pc = "range"
    /\ pending # {}
    /\ \E k \in pending :
          LET block == epochBlocks[k]
          IN  /\ pending' = pending \ {k}
              /\ blockSlot' = block.slot
              /\ dutySlot' = DutySlotOf(block.slot)
              /\ expectedCommitteeLength' =
                     ExpectedCommitteeLength(committees, DutySlotOf(block.slot))
              /\ attIdx' = 1
    /\ pc' = "atts"
    /\ UNCHANGED <<epoch, assignment, epochBlocks, listErr, committeesLen, records, summaries>>
    /\ UNCHANGED <<listVars, errSeen, commVars, rerunVars>>

\* lines 135-147: one attestation of the block; after is where the loop
\* goes on from
AfterMismatch_Stop == "done"
AfterMismatch == "atts"

AttStep ==
    /\ pc = "atts"
    /\ attIdx <= Len(epochBlocks[blockSlot].atts)
    /\ LET att == epochBlocks[blockSlot].atts[attIdx]
           computed == CommitteesLen(committees, att.dataSlot, att.committeeBits)
       IN  IF MatchesDuty(att, dutySlot)
           THEN /\ committeesLen' = computed
                /\ IF Mismatch(att, computed)
                   THEN /\ records' = Append(records, MismatchRecord(att, blockSlot, computed))
                        /\ pc' = AfterMismatch
                   ELSE /\ records' = records
                        /\ pc' = "atts"
           ELSE /\ committeesLen' = committeesLen
                /\ records' = records
                /\ pc' = "atts"
    /\ attIdx' = attIdx + 1
    /\ UNCHANGED <<epoch, assignment, epochBlocks, listErr, pending, blockSlot, dutySlot,
                   expectedCommitteeLength, summaries>>
    /\ UNCHANGED <<listVars, errSeen, commVars, rerunVars>>

\* line 148: the summary line of the block
SummaryLine(duty, bSlot, total) ==
    [dutySlot |-> duty, blockSlot |-> bSlot, committeeLength |-> total]

AuditSummary ==
    /\ pc = "atts"
    /\ attIdx > Len(epochBlocks[blockSlot].atts)
    /\ summaries' = Append(summaries, SummaryLine(dutySlot, blockSlot, expectedCommitteeLength))
    /\ blockSlot' = 0
    /\ dutySlot' = 0
    /\ expectedCommitteeLength' = 0
    /\ attIdx' = 0
    /\ committeesLen' = 0
    /\ pc' = "range"
    /\ UNCHANGED <<epoch, assignment, epochBlocks, listErr, pending, records>>
    /\ UNCHANGED <<listVars, errSeen, commVars, rerunVars>>

\* line 149: every key was visited
AuditDone ==
    /\ pc = "range"
    /\ pending = {}
    /\ pc' = "done"
    /\ UNCHANGED <<epoch, assignment, epochBlocks, listErr>>
    /\ UNCHANGED <<listVars, errSeen, commVars, auditVars, rerunVars>>

\* lines 124-149 once more, on the same epochBlocks and committees
Rerun ==
    /\ pc = "done"
    /\ run = 1
    /\ pending = {}
    /\ run' = 2
    /\ prevRecords' = records
    /\ prevSummaries' = summaries
    /\ records' = << >>
    /\ summaries' = << >>
    /\ pending' = DOMAIN epochBlocks
    /\ pc' = "range"
    /\ UNCHANGED <<epoch, assignment, epochBlocks, listErr>>
    /\ UNCHANGED <<listVars, errSeen, commVars>>
    /\ UNCHANGED <<blockSlot, dutySlot, expectedCommitteeLength, attIdx, committeesLen>>

\* ------------------------------------------------------------ specification
InitLocals ==
    /\ pc = "main"
    /\ low = 0 /\ high = 0 /\ slot = 0
    /\ result = EmptyMap
    /\ calls = << >>
    /\ gotBlock = {}
    /\ errSeen = FALSE
    /\ epochBlocks = EmptyMap
    /\ listErr = FALSE
    /\ cEpoch = 0
    /\ committees = EmptyMap
    /\ commErr = FALSE
    /\ pending = {}
    /\ blockSlot = 0 /\ dutySlot = 0 /\ expectedCommitteeLength = 0
    /\ attIdx = 0
    /\ committeesLen = 0
    /\ records = << >>
    /\ summaries = << >>
    /\ run = 1
    /\ prevRecords = << >>
    /\ prevSummaries = << >>

Init ==
    /\ epoch \in AuditEpochs
    /\ assignment \in Assignments(epoch)
    /\ InitLocals

Next ==
    \/ ListEnter
    \/ ListStep
    \/ ListReturn
    \/ CommitteesStep
    \/ CommitteesReturn
    \/ AuditNextBlock
    \/ AttStep
    \/ AuditSummary
    \/ AuditDone
    \/ Rerun

Spec == Init /\ [][Next]_vars

\* --------------------------------------------------- further specifications
\* The audit as a running program: main keeps taking steps until it ends.
FairSpec == Spec /\ WF_vars(Next)

\* The slot arithmetic alone, for every epoch of the word.
InitArith ==
    /\ epoch \in Word
    /\ assignment = {}
    /\ InitLocals

NextArith == ListEnter

SpecArith == InitArith /\ [][NextArith]_vars

\* The comparison of one attestation alone: main stands before the only
\* attestation of the block of slot LenBlockSlot, for any committee bits and
\* any committees of (or none at) the duty slot.
LenBlockSlot == SLOTS_PER_EPOCH + 1
SelIndices == 0 .. (SelBits - 1)
ValidatorLists == {<< >>, <<1>>, <<1, 2>>}
CommitteeMaps == UNION {[ix -> ValidatorLists] : ix \in SUBSET SelIndices}
LenCommittees ==
    {EmptyMap} \cup {[s \in {DutySlotOf(LenBlockSlot)} |-> m] : m \in CommitteeMaps}
LenBlocks ==
    {[s \in {LenBlockSlot} |->
        [isNil |-> FALSE, slot |-> LenBlockSlot,
         atts |-> <<[dataSlot |-> DutySlotOf(LenBlockSlot), committeeBits |-> b,
                     aggregationBitsLen |-> l]>>]] :
        b \in 0 .. ((2 ^ SelBits) - 1), l \in {0, 2}}

InitLen ==
    /\ epoch = 1
    /\ assignment = {}
    /\ pc = "atts"
    /\ low = EpochLowestSlot(1) /\ high = EpochHighestSlot(1) /\ slot = UAdd(EpochHighestSlot(1), 1)
    /\ epochBlocks \in LenBlocks
    /\ result = epochBlocks
    /\ calls = << >>
    /\ gotBlock = {LenBlockSlot}
    /\ errSeen = FALSE
    /\ listErr = FALSE
    /\ cEpoch = 2
    /\ committees \in LenCommittees
    /\ commErr = FALSE
    /\ pending = {}
    /\ blockSlot = LenBlockSlot
    /\ dutySlot = DutySlotOf(LenBlockSlot)
    /\ expectedCommitteeLength = ExpectedCommitteeLength(committees, DutySlotOf(LenBlockSlot))
    /\ attIdx = 1
    /\ committeesLen = 0
    /\ records = << >>
    /\ summaries = << >>
    /\ run = 1
    /\ prevRecords = << >>
    /\ prevSummaries = << >>

NextLen ==
    \/ AttStep
    \/ AuditSummary

SpecLen == InitLen /\ [][NextLen]_vars

\* ------------------------------------------------------------------ claims
\* What the claims speak of, stated apart from the code's loops.

\* bit i of a selector
BitSet(bits, i) == (bits \div (2 ^ i)) % 2 = 1
SelectedSet(bits) == {i \in SelIndices : BitSet(bits, i)}

\* the sum of len(A[i]) over a set of indices, A the committees of slot s
RECURSIVE MembershipOver(_, _, _)
MembershipOver(cm, s, ixs) ==
    IF ixs = {} THEN 0
    ELSE LET i == CHOOSE x \in ixs : TRUE
         IN  (IF s \in DOMAIN cm /\ i \in DOMAIN cm[s] THEN Len(cm[s][i]) ELSE 0)
             + MembershipOver(cm, s, ixs \ {i})

ComputedLength(att) == MembershipOver(committees, att.dataSlot, SelectedSet(att.committeeBits))

IsDutyAtt(b, att) == att.dataSlot = USub(b.slot, 1)
IsMismatching(b, att) == IsDutyAtt(b, att) /\ att.aggregationBitsLen # ComputedLength(att)

\* the records the first n attestations of block b call for
RECURSIVE RecordsOf(_, _)
RecordsOf(b, n) ==
    IF n = 0 THEN << >>
    ELSE LET att == b.atts[n]
         IN  RecordsOf(b, n - 1) \o
             (IF IsMismatching(b, att)
              THEN <<[attSlot |-> att.dataSlot, blockSlot |-> b.slot,
                      computed |-> ComputedLength(att), actual |-> att.aggregationBitsLen]>>
              ELSE << >>)

\* the records of the blocks that already have their summary line, in the
\* order of the summary lines
RECURSIVE RecordsOfDone(_)
RecordsOfDone(sums) ==
    IF sums = << >> THEN << >>
    ELSE LET b == epochBlocks[Head(sums).blockSlot]
         IN  RecordsOf(b, Len(b.atts)) \o RecordsOfDone(Tail(sums))

InAudit == pc \in {"range", "atts", "done"}
AtAttestation == pc = "atts" /\ attIdx <= Len(epochBlocks[blockSlot].atts)
SeqRange(q) == {q[i] : i \in 1 .. Len(q)}
EpochSlots(e) == EpochLowestSlot(e) .. EpochHighestSlot(e)

\* C1: in the audit loop the mismatch records written so far are exactly, and
\* in order, one record per attestation that is of the duty slot of its block
\* and whose aggregation-bits length differs from the computed length; each
\* carries the attestation slot, the block slot, the computed and the actual
\* length; matching attestations have none.
C1_RecordIffMismatch ==
    InAudit =>
        records = RecordsOfDone(summaries) \o
                  (IF pc = "atts" THEN RecordsOf(epochBlocks[blockSlot], attIdx - 1) ELSE << >>)

\* C1 witness: the loop is over, a block carried a matching and a mismatching
\* attestation of its duty slot, and one record was written.
C1_Witness ==
    /\ pc = "done"
    /\ Len(records) = 1
    /\ \E k \in DOMAIN epochBlocks : \E i, j \in 1 .. Len(epochBlocks[k].atts) :
          /\ IsMismatching(epochBlocks[k], epochBlocks[k].atts[i])
          /\ IsDutyAtt(epochBlocks[k], epochBlocks[k].atts[j])
          /\ ~IsMismatching(epochBlocks[k], epochBlocks[k].atts[j])

\* C2: when the committee fetch failed, main compares nothing and writes no
\* mismatch record and no summary line.
C2_AbortOnFetchError ==
    commErr => (records = << >> /\ summaries = << >>)

\* C3: a second run of the audit loop on the same epochBlocks and committees
\* writes the same mismatch records in the same order as the first.
C3_SameRecordsOnRerun ==
    (run = 2 /\ pc = "done") => records = prevRecords

\* C4: the step over an attestation that is not of the duty slot of its block
\* writes nothing, and no record is ever of such an attestation.
C4_StaleNeverReported ==
    /\ [](\A i \in 1 .. Len(records) : records[i].attSlot = USub(records[i].blockSlot, 1))
    /\ [][(AtAttestation /\ ~IsDutyAtt(epochBlocks[blockSlot], epochBlocks[blockSlot].atts[attIdx]))
            => (records' = records /\ summaries' = summaries /\ pc' = "atts")]_vars

\* C4 witness: the loop went over an attestation of another slot, whose
\* length differs from the computed one, and over a matching attestation of
\* the duty slot, and wrote nothing.
C4_Witness ==
    /\ pc = "atts"
    /\ attIdx = 3
    /\ records = << >>
    /\ LET b == epochBlocks[blockSlot]
       IN  /\ ~IsDutyAtt(b, b.atts[1])
           /\ b.atts[1].aggregationBitsLen # ComputedLength(b.atts[1])
           /\ IsDutyAtt(b, b.atts[2])

\* C5: the computed length is the sum of the sizes of the committees of the
\* attestation's slot over the set bits of the selector, an index or a slot
\* without committees counting zero; it is 0 for the empty selector.
C5_ComputedLength ==
    (pc = "atts" /\ attIdx = 2) =>
        LET att == epochBlocks[blockSlot].atts[1]
        IN  /\ committeesLen = ComputedLength(att)
            /\ (att.committeeBits = 0 => committeesLen = 0)
            /\ (att.dataSlot \notin DOMAIN committees => committeesLen = 0)

\* C5 witness: a selector naming a committee the slot has and one it lacks
\* was summed to a length above zero.
C5_Witness ==
    /\ pc = "atts" /\ attIdx = 2
    /\ committeesLen > 0
    /\ LET att == epochBlocks[blockSlot].atts[1]
       IN  /\ att.dataSlot \in DOMAIN committees
           /\ \E i \in SelectedSet(att.committeeBits) : i \notin DOMAIN committees[att.dataSlot]

\* C6 as stated: over the integers, the lowest slot is E * 32, the highest is
\* the lowest of E + 1 less one, not below the lowest, 32 slots in all.
C6_SlotRangeOverIntegers ==
    pc = "list" =>
        /\ low = epoch * SLOTS_PER_EPOCH
        /\ high = ((epoch + 1) * SLOTS_PER_EPOCH) - 1
        /\ high >= low
        /\ Cardinality({s \in Word : low <= s /\ s <= high}) = SLOTS_PER_EPOCH

\* C6 amended: the same in unsigned arithmetic of the word width: the lowest
\* slot is E * 32 reduced modulo the word, the highest is the lowest of the
\* next epoch (E + 1 reduced likewise) less one, it is not below the lowest,
\* and the inclusive range holds 32 slots.
C6_SlotRange ==
    pc = "list" =>
        /\ low = (epoch * SLOTS_PER_EPOCH) % Modulus
        /\ high = (EpochLowestSlot((epoch + 1) % Modulus) - 1) % Modulus
        /\ high >= low
        /\ Cardinality({s \in Word : low <= s /\ s <= high}) = SLOTS_PER_EPOCH

\* C6 witness: the bounds of an epoch whose slots lie past the word.
C6_Witness ==
    /\ pc = "list"
    /\ epoch * SLOTS_PER_EPOCH >= Modulus
    /\ high = low + (SLOTS_PER_EPOCH - 1)

\* C7: no fetch outcome makes ListEpochBlocks fail: the loop is never left
\* with an error, the map holds, under the slot asked for, exactly the
\* non-nil blocks GetBlock returned, and when the function returns every slot
\* of the epoch was asked for and the error is nil.
C7_SlotFailureSkipped ==
    /\ pc # "failed"
    /\ ~listErr
    /\ DOMAIN result = gotBlock
    /\ gotBlock \subseteq SeqRange(calls)
    /\ \A s \in DOMAIN result : ~result[s].isNil /\ result[s].slot = s
    /\ ((pc = "list" /\ ~ListLoopCond(slot, high)) => EpochSlots(epoch) \subseteq SeqRange(calls))
    /\ (pc \notin {"main", "list"} =>
            /\ epochBlocks = result
            /\ DOMAIN epochBlocks = gotBlock \cap EpochSlots(epoch)
            /\ EpochSlots(epoch) \subseteq SeqRange(calls))

\* C7 witness: the loop ended after a fetch error, with the first slot of the
\* epoch skipped and the block of the last slot in the map.
C7_Witness ==
    /\ pc = "list" /\ ~ListLoopCond(slot, high)
    /\ errSeen
    /\ low \notin DOMAIN result
    /\ high \in DOMAIN result

\* the committees the beacon node has for slot s, by index
NodeCommittees(s) ==
    [i \in {c.Index : c \in {x \in assignment : x.Slot = s}} |->
        (CHOOSE c \in assignment : c.Slot = s /\ c.Index = i).Validators]

\* C8: when the committee fetch did not fail, the committees main holds for
\* the duty slot of every block of the epoch are those the beacon node has
\* for that slot (slot 0 has no duty slot).
C8_DutySlotResolved ==
    (InAudit /\ ~commErr) =>
        \A k \in DOMAIN epochBlocks :
            k > 0 => MapGet1(committees, USub(k, 1)) = NodeCommittees(USub(k, 1))

\* every block of epochBlocks has its summary line, once, with the total
\* membership of the committees main holds for its duty slot
AllSummarised ==
    /\ Len(summaries) = Cardinality(DOMAIN epochBlocks)
    /\ \A k \in DOMAIN epochBlocks : \E i \in 1 .. Len(summaries) :
          summaries[i] = [dutySlot |-> USub(k, 1), blockSlot |-> k,
                          committeeLength |->
                              MembershipOver(committees, USub(k, 1),
                                             DOMAIN MapGet1(committees, USub(k, 1)))]

\* C9: once a mismatch record is written, the loop still comes to its end
\* with every attestation compared and every block summarised.
C9_MismatchNeverStops ==
    (records # << >>) ~>
        (/\ pc = "done"
         /\ pending = {}
         /\ AllSummarised
         /\ records = RecordsOfDone(summaries))

\* C9 witness: the loop is over, its first attestation was a mismatch, and a
\* block was visited after the one of the first record.
C9_Witness ==
    /\ pc = "done"
    /\ records # << >>
    /\ Len(summaries) = 2
    /\ records[1].blockSlot = summaries[1].blockSlot
    /\ IsMismatching(epochBlocks[summaries[1].blockSlot], epochBlocks[summaries[1].blockSlot].atts[1])

\* C10: GetBlock is asked for the slots of the epoch only, each once, in
\* ascending order, and all of them by the time the loop is over.
C10_EachSlotOnce ==
    /\ Len(calls) <= SLOTS_PER_EPOCH
    /\ \A i \in 1 .. Len(calls) : calls[i] = EpochLowestSlot(epoch) + (i - 1)
    /\ (pc \notin {"main", "list"} => Len(calls) = SLOTS_PER_EPOCH)

====
